---- MODULE Spec2Model ----
(***************************************************************************)
(* Model of mu00d8/statistics: the Vargha-Delaney A12 effect size          *)
(* (a12.py), its categorization, and the comparison orchestration of       *)
(* statistical_tests.py / utils.py.                                        *)
(*                                                                         *)
(* Numbers.  Python computes the effect size and the statistics as IEEE    *)
(* doubles.  Every quotient of the model is kept as an exact rational      *)
(* <<num, den>> with den > 0.  For the operand sizes of the model a        *)
(* correctly rounded quotient of two small integers compares with a        *)
(* two-digit decimal literal, and with another such quotient, exactly as   *)
(* the rationals do, so comparisons are done by cross multiplication.      *)
(***************************************************************************)
EXTENDS Integers, Sequences, FiniteSets, TLC

VARIABLES
    pc,           \* position of the a12 / categorization call
    baseline,     \* a12 parameter `baseline`
    tweak,        \* a12 parameter `tweak`
    i,            \* index of x in `for x in tweak`
    j,            \* index of y in `for y in baseline`
    more,         \* a12 local `more`
    same,         \* a12 local `same`
    effect_size,  \* value returned by a12, <<num, den>>; NoResult before
    category,     \* value returned by effect_size_categorization
    error,        \* exception raised, "" when none
    prev,         \* result of the previous a12 call of the caller's loop
    args,         \* the argparse Namespace of run_statistics.py
    mpc,          \* position in the target loop of main / gen_paper_table
    idx,          \* number of targets the loop has taken from data.items()
    target_data,  \* loop variable: the NamedSampleSet of the current target
    outcome,      \* what the loop body did with the current target
    history,      \* what the loop did with the earlier targets
    cov_percs,    \* main local `cov_percs` (hundredths of a percent)
    factors,      \* main local `factors`
    table,        \* gen_paper_table local `table`
    spc,          \* position in the competitor selection
    sample_set,   \* parameter `data` / `fuzzer_to_bbs` of the selection
    stat,         \* find_best_competitor parameter `method`
    item,         \* index of (k, v) in `for k, v in data.items()`
    best_competitor,  \* the running best (name, sample) of the loop
    found         \* what find_best_competitor did: exception or list `best`

a12vars == <<pc, baseline, tweak, i, j, more, same, effect_size, category, error, prev>>

mainvars == <<args, mpc, idx, target_data, outcome, history, cov_percs, factors, table>>

selvars == <<spc, sample_set, stat, item, best_competitor, found>>

vars == <<a12vars, mainvars, selvars>>

----------------------------------------------------------------------------
(* Bounds *)

MaxLen == 3          \* longest sample drawn as input
MaxVal == 2          \* largest measurement drawn as input
Margin == 3          \* how far outside [0,1] categorization inputs reach (in 1/den)
ExpectedRuns == 3    \* --expected-runs of the modelled runs
NumTargets == 2      \* number of targets of the TargetCollection

----------------------------------------------------------------------------
(* Rationals <<num, den>>, den > 0 *)

RatLt(a, b) == a[1] * b[2] < b[1] * a[2]
RatEq(a, b) == a[1] * b[2] = b[1] * a[2]
RatLe(a, b) == a[1] * b[2] <= b[1] * a[2]
Pct(p) == <<p, 100>>     \* the decimal literal 0.pp

NoResult == <<0, 0>>
NoCategory == "None"

\* the variables of a component that the specification at hand does not run
A12Idle ==
    /\ pc = "idle"
    /\ baseline = <<>> /\ tweak = <<>>
    /\ i = 1 /\ j = 1 /\ more = 0 /\ same = 0
    /\ effect_size = NoResult
    /\ category = NoCategory
    /\ error = ""
    /\ prev = [called |-> FALSE, effect_size |-> NoResult]

MainIdle ==
    /\ args = [subcommand |-> ""]
    /\ mpc = "idle" /\ idx = 0 /\ target_data = <<>>
    /\ outcome = [kind |-> "none"] /\ history = <<>>
    /\ cov_percs = <<>> /\ factors = <<>> /\ table = <<>>

NoBest == <<"", <<>>>>
NotCalled == [exc |-> "", best |-> <<>>, called |-> FALSE]

SelIdle ==
    /\ spc = "idle" /\ sample_set = <<>> /\ stat = "median" /\ item = 1
    /\ best_competitor = NoBest
    /\ found = NotCalled

----------------------------------------------------------------------------
(* a12.py *)

\* CompareStep with ties dropped (no `same += 1`)
CompareStepNoTies(ms, x, y) ==
    IF x = y THEN ms
    ELSE IF x > y THEN <<ms[1] + 1, ms[2]>>
    ELSE ms

\* CompareStep with a tie counted both as same and as more (`if` for `elif`, `>=`)
CompareStepTieTwice(ms, x, y) ==
    IF x = y THEN <<ms[1] + 1, ms[2] + 1>>
    ELSE IF x > y THEN <<ms[1] + 1, ms[2]>>
    ELSE ms

\* the body of the inner loop: one (x, y) comparison, ms = <<more, same>>
CompareStep(ms, x, y) ==
    IF x = y THEN <<ms[1], ms[2] + 1>>
    ELSE IF x > y THEN <<ms[1] + 1, ms[2]>>
    ELSE ms

\* (more + 0.5 * same) / (len(baseline) * len(tweak)), scaled by 2/2
A12Result(m, s, b, t) == <<2 * m + s, 2 * (Len(b) * Len(t))>>

\* the ladder with `>= 0.64` for `> 0.64`
effect_size_categorization_ge64(e) ==
    IF RatLt(Pct(71), e) THEN "+L"
    ELSE IF RatLe(Pct(64), e) THEN "+M"
    ELSE IF RatLt(Pct(56), e) THEN "+S"
    ELSE IF RatLe(Pct(50), e) THEN "  "
    ELSE IF RatLt(e, Pct(29)) THEN "-L"
    ELSE IF RatLt(e, Pct(36)) THEN "-M"
    ELSE IF RatLt(e, Pct(44)) THEN "-S"
    ELSE IF RatLt(e, Pct(50)) THEN "  "
    ELSE "ValueError"

\* the ladder with the negative rungs tested in the order 0.44, 0.36, 0.29
effect_size_categorization_reordered(e) ==
    IF RatLt(Pct(71), e) THEN "+L"
    ELSE IF RatLt(Pct(64), e) THEN "+M"
    ELSE IF RatLt(Pct(56), e) THEN "+S"
    ELSE IF RatLe(Pct(50), e) THEN "  "
    ELSE IF RatLt(e, Pct(44)) THEN "-S"
    ELSE IF RatLt(e, Pct(36)) THEN "-M"
    ELSE IF RatLt(e, Pct(29)) THEN "-L"
    ELSE IF RatLt(e, Pct(50)) THEN "  "
    ELSE "ValueError"

\* effect_size_categorization: the if/elif ladder, first match wins
effect_size_categorization(e) ==
    IF RatLt(Pct(71), e) THEN "+L"
    ELSE IF RatLt(Pct(64), e) THEN "+M"
    ELSE IF RatLt(Pct(56), e) THEN "+S"
    ELSE IF RatLt(Pct(50), e) THEN "  "
    ELSE IF RatEq(e, Pct(50)) THEN "  "
    ELSE IF RatLt(e, Pct(29)) THEN "-L"
    ELSE IF RatLt(e, Pct(36)) THEN "-M"
    ELSE IF RatLt(e, Pct(44)) THEN "-S"
    ELSE IF RatLt(e, Pct(50)) THEN "  "
    ELSE "ValueError"

Samples == UNION {[1..n -> 0..MaxVal] : n \in 0..MaxLen}

\* the samples of the __main__ block of a12.py
MainBaseline == <<11377, 11707, 11731, 11899, 12178>>
MainTweak == <<11703, 11791, 12030, 12039, 12135>>

A12Inputs == (Samples \X Samples) \cup {<<MainBaseline, MainTweak>>}

A12Init ==
    /\ \E bt \in A12Inputs : baseline = bt[1] /\ tweak = bt[2]
    /\ pc = "assert"
    /\ i = 1 /\ j = 1 /\ more = 0 /\ same = 0
    /\ effect_size = NoResult
    /\ category = NoCategory
    /\ error = ""
    /\ prev = [called |-> FALSE, effect_size |-> NoResult]
    /\ MainIdle
    /\ SelIdle

\* A12Assert with the assertion written `len(baseline) <= len(tweak)`
A12AssertLe ==
    /\ pc = "assert"
    /\ IF Len(baseline) <= Len(tweak)
       THEN /\ pc' = "loop"
            /\ error' = error
       ELSE /\ pc' = "failed"
            /\ error' = "AssertionError"
    /\ more' = 0 /\ same' = 0 /\ i' = 1 /\ j' = 1
    /\ UNCHANGED <<baseline, tweak, effect_size, category, prev>>
    /\ UNCHANGED <<mainvars, selvars>>

\* line 49: assert len(baseline) == len(tweak); lines 50-51
A12Assert ==
    /\ pc = "assert"
    /\ IF Len(baseline) = Len(tweak)
       THEN /\ pc' = "loop"
            /\ error' = error
       ELSE /\ pc' = "failed"
            /\ error' = "AssertionError"
    /\ more' = 0 /\ same' = 0 /\ i' = 1 /\ j' = 1
    /\ UNCHANGED <<baseline, tweak, effect_size, category, prev>>
    /\ UNCHANGED <<mainvars, selvars>>

\* lines 52-57: one iteration of the inner loop
A12Compare ==
    /\ pc = "loop"
    /\ i <= Len(tweak)
    /\ j <= Len(baseline)
    /\ LET ms == CompareStep(<<more, same>>, tweak[i], baseline[j])
       IN  /\ more' = ms[1]
           /\ same' = ms[2]
    /\ IF j < Len(baseline)
       THEN /\ j' = j + 1 /\ i' = i
       ELSE /\ j' = 1 /\ i' = i + 1
    /\ UNCHANGED <<pc, baseline, tweak, effect_size, category, error, prev>>
    /\ UNCHANGED <<mainvars, selvars>>

\* line 58: the division and the return
A12Return ==
    /\ pc = "loop"
    /\ i > Len(tweak)
    /\ IF Len(baseline) * Len(tweak) = 0
       THEN /\ pc' = "failed"
            /\ error' = "ZeroDivisionError"
            /\ effect_size' = effect_size
       ELSE /\ pc' = "returned"
            /\ error' = error
            /\ effect_size' = A12Result(more, same, baseline, tweak)
    /\ UNCHANGED <<baseline, tweak, i, j, more, same, category, prev>>
    /\ UNCHANGED <<mainvars, selvars>>

\* effect_size_latex_table_field, line 114: categorize the value a12 returned
Categorize ==
    /\ pc = "returned"
    /\ LET c == effect_size_categorization(effect_size)
       IN  IF c = "ValueError"
           THEN /\ pc' = "failed" /\ error' = "ValueError" /\ category' = category
           ELSE /\ pc' = "done" /\ error' = error /\ category' = c
    /\ UNCHANGED <<baseline, tweak, i, j, more, same, effect_size, prev>>
    /\ UNCHANGED <<mainvars, selvars>>

\* utils.compare_pairwise, lines 79-80: itertools.permutations yields the
\* ordered pair (A, B) and later (B, A); the second call swaps the roles
A12Swapped ==
    /\ pc = "done"
    /\ ~prev.called
    /\ prev' = [called |-> TRUE, effect_size |-> effect_size]
    /\ baseline' = tweak
    /\ tweak' = baseline
    /\ pc' = "assert"
    /\ i' = 1 /\ j' = 1 /\ more' = 0 /\ same' = 0
    /\ effect_size' = NoResult
    /\ category' = NoCategory
    /\ UNCHANGED error
    /\ UNCHANGED <<mainvars, selvars>>

A12Next == A12Assert \/ A12Compare \/ A12Return \/ Categorize \/ A12Swapped

SpecA12 == A12Init /\ [][A12Next]_vars

----------------------------------------------------------------------------
(* effect_size_categorization called on its own, with any value *)

CatDens == {1, 2, 25, 100} \cup {2 * (n * n) : n \in 1..MaxLen}

CatInputs == UNION {{<<n, d>> : n \in (0 - Margin)..(d + Margin)} : d \in CatDens}

CatInit ==
    /\ effect_size \in CatInputs
    /\ pc = "returned"
    /\ baseline = <<>> /\ tweak = <<>>
    /\ i = 1 /\ j = 1 /\ more = 0 /\ same = 0
    /\ category = NoCategory
    /\ error = ""
    /\ prev = [called |-> FALSE, effect_size |-> NoResult]
    /\ MainIdle
    /\ SelIdle

CatNext == Categorize

SpecCat == CatInit /\ [][CatNext]_vars

----------------------------------------------------------------------------
(* Claims about a12 and effect_size_categorization *)

A12Returned == pc \in {"returned", "done"} /\ baseline # <<>>

MainScenarioDone ==
    /\ baseline = MainBaseline /\ tweak = MainTweak
    /\ pc = "done" /\ ~prev.called

\* C1 as stated: on the __main__ samples a12 counts more = 18 and same = 0,
\* the effect size is 0.72 and its category is large positive.
C1_AsStated ==
    MainScenarioDone =>
        /\ more = 18 /\ same = 0
        /\ RatEq(effect_size, Pct(72))
        /\ category = "+L"

\* C1 amended: on the __main__ samples a12 counts more = 16 of the 25 pairs
\* and same = 0, the effect size is 0.64 and its category is small positive.
C1_MainScenario ==
    MainScenarioDone =>
        /\ more = 16 /\ same = 0
        /\ Len(baseline) * Len(tweak) = 25
        /\ RatEq(effect_size, Pct(64))
        /\ category = "+S"

C1_Witness == MainScenarioDone /\ error = ""

\* C2: for equal-length non-empty samples a12(A, B) + a12(B, A) = 1, that is
\* the two numerators 2*more+same add up to 2*n*n; and a12(A, A) = 0.5.
C2_Symmetry ==
    /\ (A12Returned /\ prev.called) =>
          /\ effect_size[1] * prev.effect_size[2] + prev.effect_size[1] * effect_size[2]
                = effect_size[2] * prev.effect_size[2]
          /\ effect_size[1] + prev.effect_size[1] = 2 * (Len(baseline) * Len(baseline))
    /\ (A12Returned /\ baseline = tweak) => RatEq(effect_size, <<1, 2>>)

C2_Witness ==
    /\ pc = "done" /\ prev.called
    /\ Len(baseline) = MaxLen
    /\ baseline # tweak
    /\ same > 0 /\ more > 0

\* C3: the value a12 returns is (more + 0.5*same) / (len(baseline)*len(tweak)),
\* more counting the pairs (x in tweak, y in baseline) with x > y and same
\* those with x = y, and it lies in [0, 1].
C3_Range ==
    A12Returned =>
        LET n == Len(baseline)
            pairs == (1..Len(tweak)) \X (1..n)
        IN  /\ more = Cardinality({p \in pairs : tweak[p[1]] > baseline[p[2]]})
            /\ same = Cardinality({p \in pairs : tweak[p[1]] = baseline[p[2]]})
            /\ effect_size = <<2 * more + same, 2 * (n * Len(tweak))>>
            /\ RatLe(<<0, 1>>, effect_size)
            /\ RatLe(effect_size, <<1, 1>>)

C3_Witness ==
    /\ pc = "returned"
    /\ Len(baseline) = MaxLen
    /\ same = Len(baseline) * Len(tweak)

InUnit(e) == RatLe(<<0, 1>>, e) /\ RatLe(e, <<1, 1>>)

Categorized == pc \in {"done", "failed"}

\* C4: every effect size in [0,1] gets exactly one category: > 0.71 "+L";
\* (0.64, 0.71] "+M"; (0.56, 0.64] "+S"; [0.44, 0.56] neutral;
\* [0.36, 0.44) "-S"; [0.29, 0.36) "-M"; < 0.29 "-L"; none is left out.
C4_Ladder ==
    (Categorized /\ InUnit(effect_size)) =>
        LET e == effect_size IN
        /\ pc = "done" /\ error = ""
        /\ category \in {"+L", "+M", "+S", "  ", "-S", "-M", "-L"}
        /\ category = "+L" <=> RatLt(Pct(71), e)
        /\ category = "+M" <=> (RatLt(Pct(64), e) /\ RatLe(e, Pct(71)))
        /\ category = "+S" <=> (RatLt(Pct(56), e) /\ RatLe(e, Pct(64)))
        /\ category = "  " <=> (RatLe(Pct(44), e) /\ RatLe(e, Pct(56)))
        /\ category = "-S" <=> (RatLe(Pct(36), e) /\ RatLt(e, Pct(44)))
        /\ category = "-M" <=> (RatLe(Pct(29), e) /\ RatLt(e, Pct(36)))
        /\ category = "-L" <=> RatLt(e, Pct(29))
        /\ RatEq(e, <<1, 2>>) => category = "  "
        /\ RatEq(e, <<1, 1>>) => category = "+L"
        /\ RatEq(e, <<0, 1>>) => category = "-L"

C4_Witness ==
    /\ pc = "done"
    /\ RatEq(effect_size, Pct(29))
    /\ category = "-M"

OutOfUnit(e) == RatLt(e, <<0, 1>>) \/ RatLt(<<1, 1>>, e)

\* C5: categorizing a value outside [0,1] fails with the out-of-range
\* ValueError and returns no category.
C5_OutOfRangeFails ==
    (Categorized /\ OutOfUnit(effect_size)) =>
        /\ pc = "failed"
        /\ error = "ValueError"
        /\ category = NoCategory

\* C6: with samples of unequal length a12 fails on its assertion before any
\* pair is compared and returns nothing; with equal lengths the assertion
\* never fails.
C6_DimensionMismatch ==
    /\ (Len(baseline) # Len(tweak) /\ pc # "assert") =>
          /\ pc = "failed" /\ error = "AssertionError"
          /\ i = 1 /\ j = 1 /\ more = 0 /\ same = 0
          /\ effect_size = NoResult /\ category = NoCategory
    /\ Len(baseline) = Len(tweak) => error # "AssertionError"

C6_Witness ==
    /\ pc = "failed" /\ error = "AssertionError"
    /\ Len(baseline) < Len(tweak)

----------------------------------------------------------------------------
(* Python values used by statistical_tests.py and utils.py *)

\* run_statistics.py: the fuzzer names of the example data
TWEAK == "new_fuzzer"
BASELINE == "aflpp"
THIRD == "test"

\* a Dict[str, List[int]] is the sequence of its (key, value) items in
\* insertion order
Keys(d) == {d[k][1] : k \in 1..Len(d)}
Has(d, name) == name \in Keys(d)
Get(d, name) == d[CHOOSE k \in 1..Len(d) : d[k][1] = name][2]

RECURSIVE Sum(_)
Sum(s) == IF s = <<>> THEN 0 ELSE Head(s) + Sum(Tail(s))

RECURSIVE Insert(_, _)
Insert(x, s) ==
    IF s = <<>> THEN <<x>>
    ELSE IF x <= Head(s) THEN <<x>> \o s
    ELSE <<Head(s)>> \o Insert(x, Tail(s))

RECURSIVE Sorted(_)
Sorted(s) == IF s = <<>> THEN <<>> ELSE Insert(Head(s), Sorted(Tail(s)))

RECURSIVE GCD(_, _)
GCD(a, b) == IF b = 0 THEN a ELSE GCD(b, a % b)

Abs(a) == IF a < 0 THEN 0 - a ELSE a

\* the value of a quotient: lowest terms, positive denominator
Rat(n, d) ==
    LET g == GCD(Abs(n), Abs(d))
        sg == IF d < 0 THEN 0 - 1 ELSE 1
    IN  <<sg * (n \div g), sg * (d \div g)>>

RatSub(a, b) == Rat(a[1] * b[2] - b[1] * a[2], a[2] * b[2])
RatDiv(a, b) == Rat(a[1] * b[2], a[2] * b[1])
RatScale(k, a) == Rat(k * a[1], a[2])

\* statistics.mean of a non-empty sample
mean(v) == Rat(Sum(v), Len(v))

\* statistics.median of a non-empty sample: middle of the sorted data, or
\* the average of the two middle values
median(v) ==
    LET sv == Sorted(v)
        n == Len(v)
    IN  IF n % 2 = 1 THEN Rat(sv[(n + 1) \div 2], 1)
        ELSE Rat(sv[n \div 2] + sv[n \div 2 + 1], 2)

\* round(q, 2) in hundredths; a decimal tie is decided by the double nearest
\* to q, so both neighbours are possible outcomes
Round2(q) ==
    LET n == 200 * q[1]
        d == 2 * q[2]
        lo == n \div d
    IN  IF (n % d) * 2 < d THEN {lo}
        ELSE IF (n % d) * 2 > d THEN {lo + 1}
        ELSE {lo, lo + 1}

RECURSIVE A12Count(_, _, _, _, _)
\* the two nested loops of a12 from position (x index p, y index q)
A12Count(b, t, p, q, ms) ==
    IF p > Len(t) THEN ms
    ELSE LET ms2 == CompareStep(ms, t[p], b[q])
         IN  IF q < Len(b) THEN A12Count(b, t, p, q + 1, ms2)
             ELSE A12Count(b, t, p + 1, 1, ms2)

\* a12(baseline=b, tweak=t) as a call: the exception raised or the value
a12(b, t) ==
    IF Len(b) # Len(t) THEN [exc |-> "AssertionError", value |-> NoResult]
    ELSE IF Len(b) = 0 THEN [exc |-> "ZeroDivisionError", value |-> NoResult]
    ELSE LET ms == A12Count(b, t, 1, 1, <<0, 0>>)
         IN  [exc |-> "", value |-> A12Result(ms[1], ms[2], b, t)]

\* effect_size_latex_table_field: f"{category}({round(effect_size, 2):.2f})",
\* r being the rounded value in hundredths, one of Round2(e)
effect_size_latex_table_field(e, r) == <<effect_size_categorization(e), r>>

----------------------------------------------------------------------------
(* Competitor selection *)

\* the primary / secondary statistic: fmp, fms of perc_difference
\* (lines 84-89); test_best_competitor uses median / mean
Fmp(use_mean, v) == IF use_mean THEN mean(v) ELSE median(v)
Fms(use_mean, v) == IF use_mean THEN median(v) ELSE mean(v)

\* PickBody with `>=` in the comparison of the secondary statistic
PickBodyLastSeen(primary, use_mean, kv, bc) ==
    LET k == kv[1]
        v == kv[2]
        mv == Fmp(use_mean, v)
        mbc == Fmp(use_mean, bc[2])
    IN  IF k = primary THEN bc
        ELSE IF RatLt(mbc, mv) THEN <<k, v>>
        ELSE IF RatEq(mv, mbc) /\ RatLe(Fms(use_mean, bc[2]), Fms(use_mean, v))
             THEN <<k, v>>
        ELSE bc

\* the body of the loop `for k, v in data.items()` of perc_difference
\* (95-103) and test_best_competitor (132-140) for the item kv = <<k, v>>:
\* the running best after it
PickBody(primary, use_mean, kv, bc) ==
    LET k == kv[1]
        v == kv[2]
        mv == Fmp(use_mean, v)
        mbc == Fmp(use_mean, bc[2])
    IN  IF k = primary THEN bc
        ELSE IF RatLt(mbc, mv) THEN <<k, v>>
        ELSE IF RatEq(mv, mbc) /\ RatLt(Fms(use_mean, bc[2]), Fms(use_mean, v))
             THEN <<k, v>>
        ELSE bc

RECURSIVE PickLoop(_, _, _, _, _)
\* the loop of perc_difference (94-103) and test_best_competitor (131-140)
\* from item p on, bc = <<name, sample>> being the running best
PickLoop(data, primary, use_mean, p, bc) ==
    IF p > Len(data) THEN bc
    ELSE PickLoop(data, primary, use_mean, p + 1, PickBody(primary, use_mean, data[p], bc))

\* best_competitor = ("NONE", [0] * args.expected_runs), lines 91 and 129
NoneSample(expected_runs) == <<"NONE", [r \in 1..expected_runs |-> 0]>>

\* the single-winner selection, started from ("NONE", [0] * expected_runs)
pick_one_best(data, primary, use_mean, expected_runs) ==
    PickLoop(data, primary, use_mean, 1, NoneSample(expected_runs))

\* Ratings without `if fuzzer == tweak: continue`
RatingsWithTweak(tw, fuzzer_to_bbs, method) ==
    [k \in 1..Len(fuzzer_to_bbs) |->
        <<fuzzer_to_bbs[k][1],
          IF method = "mean" THEN mean(fuzzer_to_bbs[k][2])
          ELSE median(fuzzer_to_bbs[k][2])>>]

\* utils.find_best_competitor: ratings of the fuzzers other than tweak
Ratings(tw, fuzzer_to_bbs, method) ==
    SelectSeq([k \in 1..Len(fuzzer_to_bbs) |->
                  <<fuzzer_to_bbs[k][1],
                    IF method = "mean" THEN mean(fuzzer_to_bbs[k][2])
                    ELSE median(fuzzer_to_bbs[k][2])>>],
              LAMBDA r : r[1] # tw)

\* utils.find_best_competitor: the exception raised or the list `best`
find_best_competitor(tw, fuzzer_to_bbs, method) ==
    LET ratings == Ratings(tw, fuzzer_to_bbs, method)
    IN  IF ratings = <<>> THEN [exc |-> "ValueError", best |-> <<>>]
        ELSE LET max_val == (CHOOSE k \in 1..Len(ratings) :
                                \A l \in 1..Len(ratings) : RatLe(ratings[l][2], ratings[k][2]))
                 hits == SelectSeq(ratings, LAMBDA r : RatEq(r[2], ratings[max_val][2]))
             IN  [exc |-> "", best |-> [k \in 1..Len(hits) |-> hits[k][1]]]

----------------------------------------------------------------------------
(* statistical_tests.py and utils.py: the per-target functions.  The         *)
(* statistics provider (R script, scipy) is outside the repository: a call   *)
(* is recorded with the number of groups passed, its decision `dec` is an    *)
(* input, and its response has the documented shape.                         *)

Call(fn, n) == [fn |-> fn, groups |-> n]

NoSample == <<>>

\* test_twoway(data, args), lines 44-65
test_twoway(data, dec) ==
    IF ~Has(data, TWEAK)
    THEN [exc |-> "AssertionError", a12 |-> 0, calls |-> <<>>, dec |-> FALSE]
    ELSE LET other_ks == Keys(data) \ {TWEAK}
         IN  IF other_ks = {}
             THEN [exc |-> "KeyError", a12 |-> 0, calls |-> <<>>, dec |-> FALSE]
             ELSE LET other_k == CHOOSE k \in other_ks : TRUE
                      calls == <<Call("dec_twosamplecomparison", 2)>>
                      e == a12(Get(data, other_k), Get(data, TWEAK))
                  IN  IF args.no_effect_size
                      THEN [exc |-> "", a12 |-> 0, calls |-> calls, dec |-> dec]
                      ELSE IF e.exc # ""
                      THEN [exc |-> e.exc, a12 |-> 1, calls |-> calls, dec |-> FALSE]
                      ELSE IF effect_size_categorization(e.value) = "ValueError"
                      THEN [exc |-> "ValueError", a12 |-> 1, calls |-> calls, dec |-> FALSE]
                      ELSE [exc |-> "", a12 |-> 1, calls |-> calls, dec |-> dec]

PercNone(w) ==
    [ret |-> "None", exc |-> "", warning |-> w, best |-> "", bc_cov |-> NoSample,
     mpr |-> NoResult, mbc |-> NoResult, q |-> NoResult, fac |-> NoResult]

\* perc_difference(data, primary, baseline, args), lines 68-119; `base` is ""
\* for a baseline that is not given.  The returned p is one of Round2(q).
perc_difference(data, primary, base) ==
    IF ~Has(data, primary) THEN PercNone("Primary fuzzer not found in data")
    ELSE IF base # "" /\ ~Has(data, base) THEN PercNone("Baseline fuzzer not found in data")
    ELSE LET best == IF base = ""
                     THEN pick_one_best(data, primary, args.use_mean, args.expected_runs)
                     ELSE <<base, Get(data, base)>>
             mbc == IF base = "" THEN Fms(args.use_mean, best[2]) ELSE median(best[2])
             mpr == Fmp(args.use_mean, Get(data, primary))
             diff_m == RatSub(mpr, mbc)
         IN  IF mbc[1] = 0
             THEN [ret |-> "raise", exc |-> "ZeroDivisionError", warning |-> "",
                   best |-> best[1], bc_cov |-> best[2], mpr |-> mpr, mbc |-> mbc,
                   q |-> NoResult, fac |-> NoResult]
             ELSE [ret |-> "value", exc |-> "", warning |-> "",
                   best |-> best[1], bc_cov |-> best[2], mpr |-> mpr, mbc |-> mbc,
                   q |-> RatDiv(RatScale(100, diff_m), mbc), fac |-> RatDiv(mpr, mbc)]

\* test_best_competitor(data, primary, args), lines 122-145
test_best_competitor(data, primary, dec) ==
    IF ~Has(data, primary)
    THEN [ret |-> "None", exc |-> "", warning |-> "Primary fuzzer not found in data",
          a12 |-> 0, calls |-> <<>>, bc |-> "", bc_cov |-> NoSample, dec |-> FALSE]
    ELSE LET best == pick_one_best(data, primary, FALSE, args.expected_runs)
             tw == test_twoway(<<<<primary, Get(data, primary)>>, best>>, dec)
         IN  [ret |-> IF tw.exc = "" THEN "value" ELSE "raise",
              exc |-> tw.exc, warning |-> "", a12 |-> tw.a12, calls |-> tw.calls,
              bc |-> best[1], bc_cov |-> best[2], dec |-> tw.dec]

RECURSIVE GroupLoop(_, _, _)
\* the loop of test_data, lines 158-172, from item p on: the exception raised
\* or the list `fuzzers` submitted to the provider
GroupLoop(data, p, fuzzers) ==
    IF p > Len(data) THEN [exc |-> "", fuzzers |-> fuzzers]
    ELSE LET fuzzer == data[p][1]
             fuzzer_data == data[p][2]
             distinct == Cardinality({fuzzer_data[k] : k \in 1..Len(fuzzer_data)})
         IN  IF args.allow_missing_runs /\ Len(fuzzer_data) < args.expected_runs
             THEN GroupLoop(data, p + 1, fuzzers)
             ELSE IF ~args.allow_missing_runs /\ Len(fuzzer_data) # args.expected_runs
             THEN [exc |-> "AssertionError", fuzzers |-> fuzzers]
             ELSE IF distinct < 3
             THEN GroupLoop(data, p + 1, fuzzers)
             ELSE GroupLoop(data, p + 1, Append(fuzzers, fuzzer))

\* test_data(data, args), lines 148-214
test_data(data, dec) ==
    IF Len(data) = 2
    THEN LET tw == test_twoway(data, dec)
         IN  [exc |-> tw.exc, warning |-> "", a12 |-> tw.a12, calls |-> tw.calls]
    ELSE IF Len(data) > 2
    THEN LET g == GroupLoop(data, 1, <<>>)
         IN  IF g.exc # ""
             THEN [exc |-> g.exc, warning |-> "", a12 |-> 0, calls |-> <<>>]
             ELSE IF Len(g.fuzzers) < 2
             THEN [exc |-> "", warning |-> "Not enough groups to run a test",
                   a12 |-> 0, calls |-> <<>>]
             ELSE [exc |-> "", warning |-> "", a12 |-> 0,
                   calls |-> <<Call("dec_anova", Len(g.fuzzers))>>]
    ELSE [exc |-> "", warning |-> "Not enough data to compare fuzzers",
          a12 |-> 0, calls |-> <<>>]

RECURSIVE CompareLoop(_, _, _, _)
\* a loop over (baseline sample, tweak sample) pairs calling a12 and then
\* mann_whitney_u(unsafe=True), utils.py lines 80-82 and 94-96
CompareLoop(pairs, p, n, calls) ==
    IF p > Len(pairs) THEN [exc |-> "", a12 |-> n, calls |-> calls]
    ELSE LET e == a12(pairs[p][1], pairs[p][2])
         IN  IF e.exc # "" THEN [exc |-> e.exc, a12 |-> n + 1, calls |-> calls]
             ELSE CompareLoop(pairs, p + 1, n + 1, Append(calls, Call("mannwhitneyu", 2)))

\* itertools.permutations(items, 2): index pairs in lexicographic order
Permutations2(n) ==
    LET all == [k \in 1..(n * n) |-> <<((k - 1) \div n) + 1, ((k - 1) % n) + 1>>]
    IN  SelectSeq(all, LAMBDA pr : pr[1] # pr[2])

\* utils.compare_pairwise, lines 78-83
compare_pairwise(fuzzer_data) ==
    LET perms == Permutations2(Len(fuzzer_data))
        pairs == [k \in 1..Len(perms) |->
                     <<fuzzer_data[perms[k][2]][2], fuzzer_data[perms[k][1]][2]>>]
    IN  CompareLoop(pairs, 1, 0, <<>>)

\* utils.compare_against_best_competitor, lines 88-99
compare_against_best_competitor(tw, fuzzer_data) ==
    LET bc == find_best_competitor(tw, fuzzer_data, "median")
    IN  IF bc.exc # "" THEN [exc |-> bc.exc, a12 |-> 0, calls |-> <<>>]
        ELSE IF ~Has(fuzzer_data, tw) THEN [exc |-> "KeyError", a12 |-> 0, calls |-> <<>>]
        ELSE CompareLoop([k \in 1..Len(bc.best) |->
                             <<Get(fuzzer_data, bc.best[k]), Get(fuzzer_data, tw)>>],
                         1, 0, <<>>)

\* traditional_MWU_test, lines 252-256
traditional_MWU_test(data) ==
    IF args.only_best_competitor THEN compare_against_best_competitor(TWEAK, data)
    ELSE compare_pairwise(data)

----------------------------------------------------------------------------
(* main and gen_paper_table: the loop over the targets.  The loop takes the  *)
(* items of `data` one by one; an item is drawn when the loop reaches it.    *)
(* `in_eval` is the value of `not args.eval_targets or target in             *)
(* args.eval_targets` for the drawn target; the data of a target that the    *)
(* filter drops is never read and is drawn as the empty mapping.             *)

FuzzerNames == {TWEAK, BASELINE, THIRD}

\* the orders of the fuzzers in a target's mapping.  The focal fuzzer is
\* skipped by every loop that depends on the order, so it is put first.
NameOrders ==
    {o \in UNION {[1..n -> FuzzerNames] : n \in 0..Cardinality(FuzzerNames)} :
        /\ \A k, l \in 1..Len(o) : k # l => o[k] # o[l]
        /\ \A k \in 1..Len(o) : o[k] = TWEAK => k = 1}

\* the samples of the modelled targets: all zero, three distinct values,
\* constant, one out of order with the median of the former two and a
\* smaller mean, a larger one, and one with a missing run
Pool == {<<0, 0, 0>>, <<0, 1, 2>>, <<1, 1, 1>>, <<1, 0, 1>>, <<1, 2, 2>>, <<1, 2>>}

NamedSampleSets ==
    UNION {{[k \in 1..Len(o) |-> <<o[k], f[k]>>] : f \in [1..Len(o) -> Pool]} : o \in NameOrders}

Args(sub, base, um, obc, amr, nes) ==
    [subcommand |-> sub, baseline |-> base, tweak |-> TWEAK, use_mean |-> um,
     only_best_competitor |-> obc, allow_missing_runs |-> amr,
     no_effect_size |-> nes, expected_runs |-> ExpectedRuns]

\* the command lines modelled: an option varies in the modes that read it
ArgSets ==
    {Args("improvement", b, um, FALSE, FALSE, FALSE) : b \in {"", BASELINE}, um \in BOOLEAN}
    \cup {Args("baseline", BASELINE, FALSE, FALSE, FALSE, nes) : nes \in BOOLEAN}
    \cup {Args("traditional", BASELINE, FALSE, obc, FALSE, FALSE) : obc \in BOOLEAN}
    \cup {Args("best-competitor", BASELINE, FALSE, FALSE, FALSE, nes) : nes \in BOOLEAN}
    \cup {Args("full-comparison", BASELINE, FALSE, FALSE, amr, nes) : amr \in BOOLEAN, nes \in BOOLEAN}
    \cup {Args("gen-table", BASELINE, FALSE, FALSE, FALSE, nes) : nes \in BOOLEAN}

NoRow == [bc |-> "", category |-> NoCategory, shown |-> 0, bold |-> FALSE]

NoOutcome ==
    [kind |-> "none", warning |-> "", exc |-> "", a12 |-> 0, calls |-> <<>>,
     best |-> "", bc_cov |-> NoSample, p |-> 0, fac |-> NoResult,
     mpr |-> NoResult, mbc |-> NoResult, dec |-> FALSE, row |-> NoRow]

Skipped(w) == [NoOutcome EXCEPT !.kind = "skipped", !.warning = w]

\* the outcome of a body that made the calls of result r (fields exc,
\* warning, a12, calls): raised, skipped with r's warning, or processed
Ran(r) ==
    [NoOutcome EXCEPT
        !.kind = IF r.exc # "" THEN "aborted"
                 ELSE IF r.warning # "" THEN "skipped" ELSE "processed",
        !.warning = r.warning, !.exc = r.exc, !.a12 = r.a12, !.calls = r.calls]

MainInit ==
    /\ args \in ArgSets
    /\ mpc = "for"
    /\ idx = 0
    /\ target_data = <<>>
    /\ outcome = NoOutcome
    /\ history = <<>>
    /\ cov_percs = <<>>
    /\ factors = <<>>
    /\ table = <<>>
    /\ A12Idle
    /\ SelIdle

\* the body's end: the outcome becomes the state of the next iteration
Leave(o) ==
    /\ outcome' = o
    /\ mpc' = IF o.kind = "aborted" THEN "aborted" ELSE "next"

\* main, lines 267-277: take the next target, the --eval-targets filter,
\* the skip of a target with data for 1 fuzzer
ForTarget ==
    /\ mpc = "for"
    /\ args.subcommand # "gen-table"
    /\ idx < NumTargets
    /\ \E in_eval \in BOOLEAN, td \in NamedSampleSets :
         /\ in_eval \/ td = <<>>
         /\ target_data' = td
         /\ IF ~in_eval
            THEN outcome' = [NoOutcome EXCEPT !.kind = "filtered"] /\ mpc' = "next"
            ELSE IF Len(td) = 1
            THEN outcome' = Skipped("Skipping this target as we only have data for 1 fuzzer")
                 /\ mpc' = "next"
            ELSE outcome' = NoOutcome /\ mpc' = "body"
    /\ idx' = idx + 1
    /\ UNCHANGED <<args, history, cov_percs, factors, table, a12vars, selvars>>

\* main, lines 278-283: subcommand "improvement"
Improvement ==
    /\ mpc = "body"
    /\ args.subcommand = "improvement"
    /\ \E res \in {perc_difference(target_data, args.tweak, args.baseline)} :
           IF res.ret = "value"
           THEN \E p \in Round2(res.q) :
                  /\ Leave([NoOutcome EXCEPT !.kind = "processed", !.best = res.best,
                               !.bc_cov = res.bc_cov, !.p = p, !.fac = res.fac,
                               !.mpr = res.mpr, !.mbc = res.mbc])
                  /\ factors' = Append(factors, res.fac)
                  /\ cov_percs' = Append(cov_percs, p)
           ELSE /\ Leave([NoOutcome EXCEPT
                             !.kind = IF res.ret = "raise" THEN "aborted" ELSE "skipped",
                             !.warning = res.warning, !.exc = res.exc,
                             !.best = res.best, !.bc_cov = res.bc_cov,
                             !.mpr = res.mpr, !.mbc = res.mbc])
                /\ UNCHANGED <<factors, cov_percs>>
    /\ UNCHANGED <<args, idx, target_data, history, table, a12vars, selvars>>

\* main, lines 284-293: subcommand "baseline"
Baseline ==
    /\ mpc = "body"
    /\ args.subcommand = "baseline"
    /\ \E dec \in BOOLEAN :
         IF ~Has(target_data, args.baseline)
         THEN Leave(Skipped("Baseline has no data for target"))
         ELSE IF ~Has(target_data, args.tweak)
         THEN Leave([NoOutcome EXCEPT !.kind = "aborted", !.exc = "KeyError"])
         ELSE \E baseline_data \in {<<<<args.baseline, Get(target_data, args.baseline)>>,
                                        <<args.tweak, Get(target_data, args.tweak)>>>>} :
              \E tw \in {test_twoway(baseline_data, dec)} :
                Leave([Ran([exc |-> tw.exc, warning |-> "", a12 |-> tw.a12,
                            calls |-> tw.calls]) EXCEPT !.dec = tw.dec])
    /\ UNCHANGED <<args, idx, target_data, history, cov_percs, factors, table, a12vars, selvars>>

\* main, lines 294-295: subcommand "traditional"
Traditional ==
    /\ mpc = "body"
    /\ args.subcommand = "traditional"
    /\ \E r \in {traditional_MWU_test(target_data)} :
         Leave(Ran([exc |-> r.exc, warning |-> "", a12 |-> r.a12, calls |-> r.calls]))
    /\ UNCHANGED <<args, idx, target_data, history, cov_percs, factors, table, a12vars, selvars>>

\* main, lines 296-297: subcommand "best-competitor"
BestCompetitor ==
    /\ mpc = "body"
    /\ args.subcommand = "best-competitor"
    /\ \E dec \in BOOLEAN :
         \E r \in {test_best_competitor(target_data, args.tweak, dec)} :
           Leave([Ran([exc |-> r.exc, warning |-> r.warning, a12 |-> r.a12,
                       calls |-> r.calls])
                     EXCEPT !.best = r.bc, !.bc_cov = r.bc_cov, !.dec = r.dec])
    /\ UNCHANGED <<args, idx, target_data, history, cov_percs, factors, table, a12vars, selvars>>

\* main, lines 298-299: subcommand "full-comparison"
FullComparison ==
    /\ mpc = "body"
    /\ args.subcommand = "full-comparison"
    /\ \E dec \in BOOLEAN : \E r \in {test_data(target_data, dec)} : Leave(Ran(r))
    /\ UNCHANGED <<args, idx, target_data, history, cov_percs, factors, table, a12vars, selvars>>

\* gen_paper_table, lines 219-221: take the next target, the filter
ForTargetTable ==
    /\ mpc = "for"
    /\ args.subcommand = "gen-table"
    /\ idx < NumTargets
    /\ \E in_eval \in BOOLEAN, td \in NamedSampleSets :
         /\ in_eval \/ td = <<>>
         /\ target_data' = td
         /\ IF ~in_eval
            THEN outcome' = [NoOutcome EXCEPT !.kind = "filtered"] /\ mpc' = "next"
            ELSE outcome' = NoOutcome /\ mpc' = "body"
    /\ idx' = idx + 1
    /\ UNCHANGED <<args, history, cov_percs, factors, table, a12vars, selvars>>

\* gen_paper_table, lines 222-246: the body of the loop
GenTable ==
    /\ mpc = "body"
    /\ args.subcommand = "gen-table"
    /\ IF ~Has(target_data, args.tweak)
       THEN Leave(Skipped("Tweak not in target_data")) /\ table' = table
       ELSE IF Len(target_data) < 2
       THEN Leave(Skipped("Data for less than 2 fuzzers")) /\ table' = table
       ELSE \E dec \in BOOLEAN :
            \E res \in {test_best_competitor(target_data, args.tweak, dec)} :
            \E ran \in {[Ran([exc |-> res.exc, warning |-> res.warning, a12 |-> res.a12,
                              calls |-> res.calls])
                           EXCEPT !.best = res.bc, !.bc_cov = res.bc_cov, !.dec = res.dec]} :
              IF res.ret = "raise" THEN Leave(ran) /\ table' = table
              ELSE IF res.ret = "None"
              THEN Leave([ran EXCEPT !.warning = "Skipping"]) /\ table' = table
              ELSE IF Len(res.bc_cov) # Len(Get(target_data, args.tweak))
              THEN Leave([ran EXCEPT !.kind = "skipped",
                                     !.warning = "num_runs[best_comp] <-> num_runs[tweak]"])
                   /\ table' = table
              ELSE \E eff_sz \in {a12(res.bc_cov, Get(target_data, args.tweak))} :
                   IF eff_sz.exc # ""
                   THEN Leave([ran EXCEPT !.kind = "aborted", !.exc = eff_sz.exc,
                                          !.a12 = ran.a12 + 1])
                        /\ table' = table
                   ELSE \E shown \in Round2(eff_sz.value) :
                          LET field == effect_size_latex_table_field(eff_sz.value, shown)
                              row == [bc |-> res.bc, category |-> field[1],
                                      shown |-> field[2], bold |-> res.dec]
                          IN  /\ Leave([ran EXCEPT !.a12 = ran.a12 + 1, !.row = row])
                              /\ table' = Append(table, [target |-> idx] @@ row)
    /\ UNCHANGED <<args, idx, target_data, history, cov_percs, factors, a12vars, selvars>>

\* `continue` or the end of the loop body: back to the `for` statement
Continue ==
    /\ mpc = "next"
    /\ history' = Append(history, outcome.kind)
    /\ target_data' = <<>>
    /\ outcome' = NoOutcome
    /\ mpc' = "for"
    /\ UNCHANGED <<args, idx, cov_percs, factors, table, a12vars, selvars>>

\* the loop is exhausted: main lines 303-313 print the aggregates,
\* gen_paper_table lines 247-248 print the table
Finish ==
    /\ mpc = "for"
    /\ idx = NumTargets
    /\ mpc' = "done"
    /\ UNCHANGED <<args, idx, target_data, outcome, history, cov_percs, factors, table, a12vars, selvars>>

MainNext ==
    \/ ForTarget \/ Improvement \/ Baseline \/ Traditional \/ BestCompetitor
    \/ FullComparison \/ ForTargetTable \/ GenTable \/ Continue \/ Finish

SpecMain == MainInit /\ [][MainNext]_vars

----------------------------------------------------------------------------
(* The two selectors on one sample set: the single-winner loop of            *)
(* perc_difference / test_best_competitor, then utils.find_best_competitor.  *)

\* the samples of Pool and two with the mean of another and a different median
SelPool == Pool \cup {<<0, 2, 2>>, <<1, 1, 2>>}

\* a mapping's keys are distinct; any insertion order
SelNameOrders ==
    {o \in UNION {[1..n -> FuzzerNames] : n \in 0..Cardinality(FuzzerNames)} :
        \A k, l \in 1..Len(o) : k # l => o[k] # o[l]}

SelSampleSets ==
    UNION {{[k \in 1..Len(o) |-> <<o[k], f[k]>>] : f \in [1..Len(o) -> SelPool]} :
              o \in SelNameOrders}

\* the callers of the loop: perc_difference without a baseline (improvement,
\* statistic by --use-mean) and test_best_competitor (median, then mean)
SelArgs ==
    {Args("improvement", "", um, FALSE, FALSE, FALSE) : um \in BOOLEAN}
    \cup {Args("best-competitor", BASELINE, FALSE, FALSE, FALSE, FALSE)}

\* fmp is the mean only in perc_difference with args.use_mean
SelUseMean == args.subcommand = "improvement" /\ args.use_mean

SelInit ==
    /\ sample_set \in SelSampleSets
    /\ stat \in {"median", "mean"}
    /\ args \in SelArgs
    /\ spc = "enter"
    /\ item = 1
    /\ best_competitor = NoBest
    /\ found = NotCalled
    /\ mpc = "idle" /\ idx = 0 /\ target_data = <<>>
    /\ outcome = [kind |-> "none"] /\ history = <<>>
    /\ cov_percs = <<>> /\ factors = <<>> /\ table = <<>>
    /\ A12Idle

\* lines 79-81 / 126-128: `if not primary in data: return None`;
\* lines 91 / 129: the running best starts as the "NONE" sample
PickEnter ==
    /\ spc = "enter"
    /\ IF ~Has(sample_set, args.tweak)
       THEN /\ spc' = "none"
            /\ best_competitor' = best_competitor
       ELSE /\ spc' = "for"
            /\ best_competitor' = NoneSample(args.expected_runs)
    /\ item' = 1
    /\ UNCHANGED <<sample_set, stat, found, a12vars, mainvars>>

\* lines 94-103 / 131-140: one iteration of `for k, v in data.items()`
PickIter ==
    /\ spc = "for"
    /\ item <= Len(sample_set)
    /\ best_competitor' = PickBody(args.tweak, SelUseMean, sample_set[item], best_competitor)
    /\ item' = item + 1
    /\ UNCHANGED <<spc, sample_set, stat, found, a12vars, mainvars>>

\* the loop is exhausted: best_competitor is the winner
PickExit ==
    /\ spc = "for"
    /\ item > Len(sample_set)
    /\ spc' = "picked"
    /\ UNCHANGED <<sample_set, stat, item, best_competitor, found, a12vars, mainvars>>

\* find_best_competitor(tweak, sample_set, stat) on the same mapping
FindBest ==
    /\ spc \in {"picked", "none"}
    /\ \E r \in {find_best_competitor(args.tweak, sample_set, stat)} :
         /\ found' = [exc |-> r.exc, best |-> r.best, called |-> TRUE]
         /\ spc' = IF r.exc # "" THEN "raised" ELSE "found"
    /\ UNCHANGED <<sample_set, stat, item, best_competitor, a12vars, mainvars>>

SelNext == PickEnter \/ PickIter \/ PickExit \/ FindBest

SpecSelect == SelInit /\ [][SelNext]_vars

----------------------------------------------------------------------------
(* Claims about the selectors *)

\* the names of the mapping other than the focal one
Candidates == Keys(sample_set) \ {args.tweak}

\* the single-winner loop has run to its end
Picked == spc \in {"picked", "found", "raised"} /\ best_competitor # NoBest

\* C11: when the sample set holds a fuzzer other than the focal one, the
\* winner of the single-winner selection is a fuzzer name of the sample set
\* other than the focal one, never "NONE".
C11_WinnerIsReal ==
    (Picked /\ Candidates # {}) =>
        /\ best_competitor[1] # "NONE"
        /\ best_competitor[1] \in Candidates

----------------------------------------------------------------------------
(* Claims about the target loop *)

\* the loop body has dealt with a target that passed the filter
Handled == mpc \in {"next", "aborted"} /\ outcome.kind # "filtered"

SkippedWithWarning ==
    /\ mpc = "next"
    /\ outcome.kind = "skipped"
    /\ outcome.warning # ""
    /\ outcome.exc = ""

\* C7: in every mode a target without the focal fuzzer is skipped with a
\* warning; the run does not abort and goes on to the later targets.
C7_MissingFocalSkipped ==
    (Handled /\ ~Has(target_data, args.tweak)) => SkippedWithWarning

\* C8: in every mode a target with fewer than 2 fuzzers is skipped with a
\* warning: no effect size is computed, no provider call is made, the run
\* does not fail and goes on to the next target.
C8_FewFuzzersSkipped ==
    (Handled /\ Len(target_data) < 2) =>
        /\ SkippedWithWarning
        /\ outcome.a12 = 0
        /\ outcome.calls = <<>>

\* C9: in full-comparison mode dec_anova is only ever called with at least
\* 3 groups; 2 groups, also when left over after the exclusions, go to the
\* two-sample test.
C9_AnovaAtLeastThree ==
    (Handled /\ args.subcommand = "full-comparison") =>
        \A k \in 1..Len(outcome.calls) :
            outcome.calls[k].fn = "dec_anova" => outcome.calls[k].groups >= 3

\* C10: in improvement mode the reported ratio is S(focal)/S(reference) and
\* the reported percentage 100*(S(focal)-S(reference))/S(reference), S being
\* the one chosen statistic (median, or mean with --use-mean) and the
\* reference the named baseline or the selected best competitor.
C10_SameStatistic ==
    (Handled /\ args.subcommand = "improvement" /\ outcome.kind = "processed") =>
        LET sf == Fmp(args.use_mean, Get(target_data, args.tweak))
            ref == IF args.baseline # "" THEN Get(target_data, args.baseline)
                   ELSE outcome.bc_cov
            sr == Fmp(args.use_mean, ref)
        IN  /\ sr[1] # 0
            /\ RatEq(outcome.fac, RatDiv(sf, sr))
            /\ outcome.p \in Round2(RatDiv(RatScale(100, RatSub(sf, sr)), sr))

\* the primary and the secondary statistic of the caller at hand
Primary(v) == IF SelUseMean THEN mean(v) ELSE median(v)
Secondary(v) == IF SelUseMean THEN median(v) ELSE mean(v)

\* the position of a name in the iteration order of the mapping
Pos(name) == CHOOSE k \in 1..Len(sample_set) : sample_set[k][1] = name

\* the winner is a candidate with the largest primary statistic, among
\* those the largest secondary statistic, among those the first seen
C12_Winner ==
    (Picked /\ best_competitor[1] \in Candidates) =>
        LET w == best_competitor[2]
        IN  /\ w = Get(sample_set, best_competitor[1])
            /\ \A n \in Candidates :
                 LET v == Get(sample_set, n)
                 IN  /\ RatLe(Primary(v), Primary(w))
                     /\ RatEq(Primary(v), Primary(w)) => RatLe(Secondary(v), Secondary(w))
                     /\ (RatEq(Primary(v), Primary(w)) /\ RatEq(Secondary(v), Secondary(w)))
                            => Pos(best_competitor[1]) <= Pos(n)

\* one iteration of the loop: the candidate of the iteration becomes the
\* running best iff it is strictly better, otherwise the running best stays
C12_Step ==
    (spc = "for" /\ item' = item + 1) =>
        LET k == sample_set[item][1]
            v == sample_set[item][2]
            b == best_competitor[2]
            better == \/ RatLt(Primary(b), Primary(v))
                      \/ /\ RatEq(Primary(v), Primary(b))
                         /\ RatLt(Secondary(b), Secondary(v))
        IN  /\ best_competitor' = <<k, v>> <=> (k # args.tweak /\ better)
            /\ best_competitor' # <<k, v>> => best_competitor' = best_competitor

Rated(v) == IF stat = "mean" THEN mean(v) ELSE median(v)

\* the candidates no other candidate exceeds in the rated statistic
Maximal ==
    {n \in Candidates :
        \A m \in Candidates : RatLe(Rated(Get(sample_set, m)), Rated(Get(sample_set, n)))}

\* C13: find_best_competitor returns exactly the names other than the focal
\* one whose statistic (median, or mean when selected) equals the maximum
\* over the names other than the focal one: never the focal name, also when
\* it has the highest statistic, and every tied maximal name, each once.
C13_AllMaximal ==
    (spc = "found") =>
        /\ found.called /\ found.exc = ""
        /\ {found.best[k] : k \in 1..Len(found.best)} = Maximal
        /\ Len(found.best) = Cardinality(Maximal)
        /\ \A k \in 1..Len(found.best) : found.best[k] # args.tweak

\* the focal fuzzer is present with a statistic above every candidate's, and
\* two tied candidates are returned
C13_Witness ==
    /\ spc = "found"
    /\ Has(sample_set, args.tweak)
    /\ \A n \in Candidates :
         RatLt(Rated(Get(sample_set, n)), Rated(Get(sample_set, args.tweak)))
    /\ Len(found.best) = 2
    /\ Get(sample_set, found.best[1]) # Get(sample_set, found.best[2])

\* both selectors have run on the sample set, the single-winner one as
\* test_best_competitor runs it (median, then mean), the other by median
BothByMedian ==
    /\ spc = "found"
    /\ Picked
    /\ args.subcommand = "best-competitor"
    /\ stat = "median"

\* C15: for a sample set with a fuzzer other than the focal one, the single
\* winner of test_best_competitor is one of the names that
\* find_best_competitor(focal, sample set, 'median') returns.
C15_WinnerAmongBest ==
    (BothByMedian /\ Candidates # {}) =>
        \E k \in 1..Len(found.best) : found.best[k] = best_competitor[1]

----------------------------------------------------------------------------
(* Claims about gen_paper_table *)

\* the row of the current target is the last one appended
RowAppended ==
    /\ table # <<>>
    /\ table[Len(table)].target = idx
    /\ outcome.row # NoRow

\* the current target has the focal fuzzer, at least 2 fuzzers, and a best
\* competitor with as many runs as the focal fuzzer
RowDue ==
    /\ Has(target_data, args.tweak)
    /\ Len(target_data) >= 2
    /\ Len(pick_one_best(target_data, args.tweak, FALSE, args.expected_runs)[2])
          = Len(Get(target_data, args.tweak))

\* what the claim says of one target that passed the filter: a row iff it
\* is due, its field computed by a12(best competitor, focal) and bold iff
\* the two-sample test was significant
C14_Row ==
    /\ RowAppended <=> RowDue
    /\ RowAppended =>
          LET row == table[Len(table)]
              bc == pick_one_best(target_data, args.tweak, FALSE, args.expected_runs)
              e == A12Count(bc[2], Get(target_data, args.tweak), 1, 1, <<0, 0>>)
              eff == <<2 * e[1] + e[2], 2 * (Len(bc[2]) * Len(bc[2]))>>
          IN  /\ row.bc = bc[1]
              /\ row.category = effect_size_categorization(eff)
              /\ row.shown \in Round2(eff)
              /\ row.bold = outcome.dec

\* C14: in gen-table mode the rows are in target order, at most one per
\* target; every target that passed the filter gets exactly one row if it
\* has the focal fuzzer, at least 2 fuzzers and a best competitor with the
\* focal fuzzer's number of runs, and otherwise none, the loop going on to
\* the targets after it; the effect-size field is bold iff the two-sample
\* test of the target was significant.
C14_OneRowPerTarget ==
    (args.subcommand = "gen-table") =>
        /\ \A k, l \in 1..Len(table) : k < l => table[k].target < table[l].target
        /\ Handled => (C14_Row /\ mpc = "next")
        /\ (mpc = "next" /\ outcome.kind = "filtered") => ~RowAppended

====
